---------------------------- MODULE Spec2Model ----------------------------
(***************************************************************************)
(* Off-screen render-and-readback engine of tui-shader.                    *)
(*                                                                         *)
(* The repository holds four revisions of the engine:                      *)
(*   "WgpuContext"       src/src/wgpu_context.rs  (u16 sizes, unmaps,      *)
(*                                                returns the padded rows) *)
(*   "ShaderState"       src/src/lib.rs           (u32 sizes, never unmaps,*)
(*                                                returns the padded rows) *)
(*   "ShaderCanvasState" src/src/state.rs         (as ShaderState)         *)
(*   "WgpuBackend"       src/src/backend/wgpu.rs  (u16 sizes, unmaps,      *)
(*                                                de-pads the rows)        *)
(* rev selects the revision a behaviour runs; build selects the overflow   *)
(* semantics of the u16 arithmetic (debug: panic, release: wrap); the u32  *)
(* revisions compute on sizes that come from u16 fields and cannot         *)
(* overflow, so one build stands for both there.                            *)
(*                                                                         *)
(* A Vec<[u8; 4]> read back from the staging buffer is kept as the list of *)
(* copies that wrote the buffer (newest first) and read through PaddedAt;  *)
(* a pixel carries, beside its colour, where it comes from (texel of which *)
(* cell, written in this frame or an earlier one, or a padding pixel).     *)
(***************************************************************************)
EXTENDS Integers, Sequences, FiniteSets, TLC

\* ------------------------------------------------------------ constants

DEFAULT_SIZE == 64

\* (row_size + 255) & !255
AlignMask == 255

\* wgpu::Limits::downlevel_defaults().max_texture_dimension_2d
MaxTextureDimension2D == 2048

\* ------------------------------------------------------------ bounds

\* heights 0..MaxSmallHeight are requested beside DEFAULT_SIZE and TallHeight
MaxSmallHeight == 1

\* a width whose row (148 bytes) is padded to 256 bytes
PaddedWidth == 37

\* ------------------------------------------------------------ inputs

Revisions == {"WgpuContext", "ShaderState", "ShaderCanvasState", "WgpuBackend"}

Builds == {"debug", "release"}

\* the least height whose last padded row starts at pixel index 2^16
TallHeight == (2 ^ 16) \div DEFAULT_SIZE + 1

Widths == {0, PaddedWidth, DEFAULT_SIZE, DEFAULT_SIZE + 1}

Heights == (0 .. MaxSmallHeight) \cup {DEFAULT_SIZE, TallHeight}

None == "None"

\* WGSL source texts; "broken" is not WGSL
Sources == {"default_fragment", "test_fragment", "broken"}

Paths == {"shaders/default_fragment.wgsl", "shaders/test_fragment.wgsl",
          "shaders/broken.wgsl", "shaders/missing.wgsl"}

EntryPoints == {"magenta", "red", "green", "main"}

\* what the bytes of a staging buffer no copy has written may read as
\* NoUserData(f32): T::default() and another value of T
NoUserData == 0

UserData == {NoUserData, 1}

PadFills == {<<0, 0, 0, 0>>, <<205, 205, 205, 205>>}

\* ------------------------------------------------------------ integers

UsesU16(r) == r \in {"WgpuContext", "WgpuBackend"}

U16 == 2 ^ 16

\* the value an integer expression has in the revision's size type: u16
\* arithmetic wraps at 2^16 (release); the u32 revisions take their sizes
\* from u16 fields, so no expression below reaches 2^32 there
Wrap(r, n) == IF UsesU16(r) THEN n % U16 ELSE n

Overflows(r, n) == UsesU16(r) /\ (n < 0 \/ n >= U16)

\* n & !255
AlignDown(n) == n - (n % (AlignMask + 1))

\* let row_size = width * 4; (row_size + 255) & !255
bytes_per_row(r, width) ==
    AlignDown(Wrap(r, Wrap(r, width * 4) + AlignMask))

\* an intermediate result of bytes_per_row leaves the integer type
bytes_per_row_overflows(r, width) ==
    \/ Overflows(r, width * 4)
    \/ Overflows(r, Wrap(r, width * 4) + AlignMask)

\* (bytes_per_row - row_size) / 4
row_padding(r, width) ==
    LET d == bytes_per_row(r, width) - Wrap(r, width * 4)
    IN  (IF d < 0 THEN Wrap(r, d + U16) ELSE d) \div 4

row_padding_overflows(r, width) ==
    \/ bytes_per_row_overflows(r, width)
    \/ Overflows(r, bytes_per_row(r, width) - Wrap(r, width * 4))

\* (y * (width + row_padding(width)) + x) as usize
DepadIndex(r, x, y, width) ==
    Wrap(r, Wrap(r, y * Wrap(r, width + row_padding(r, width))) + x)

DepadIndexOverflows(r, x, y, width) ==
    \/ row_padding_overflows(r, width)
    \/ Overflows(r, width + row_padding(r, width))
    \/ Overflows(r, y * Wrap(r, width + row_padding(r, width)))
    \/ Overflows(r, Wrap(r, y * Wrap(r, width + row_padding(r, width))) + x)

\* ------------------------------------------------------------ shaders

\* naga::front::wgsl::parse_str / create_shader_module accept the source
ParsesAsWgsl(source) == source # "broken"

\* the @fragment functions a source defines
FragmentEntries(source) ==
    CASE source = "default_fragment" -> {"magenta"}
      [] source = "test_fragment"    -> {"red", "green"}
      [] OTHER                      -> {}

\* the colour a fragment function returns, as Rgba8Unorm
Shade(fragment) ==
    CASE fragment = "magenta" -> <<255, 0, 255, 255>>
      [] fragment = "red"     -> <<255, 0, 0, 255>>
      [] fragment = "green"   -> <<0, 255, 0, 255>>
      [] OTHER                -> <<0, 0, 0, 0>>

\* wgpu::Color::BLACK
ClearColor == <<0, 0, 0, 255>>

\* BlendState::ALPHA_BLENDING: colour src*a + dst*(1-a), alpha src + dst*(1-a)
Blend(src, dst) ==
    LET a == src[4]
        mix(s, d) == (s * a + d * (255 - a) + 127) \div 255
        cap(n) == IF n > 255 THEN 255 ELSE n
    IN  <<mix(src[1], dst[1]), mix(src[2], dst[2]), mix(src[3], dst[3]),
          cap(src[4] + (dst[4] * (255 - a) + 127) \div 255)>>

\* std::fs::read_to_string(path)
FileContent(path) ==
    CASE path = "shaders/default_fragment.wgsl" -> "default_fragment"
      [] path = "shaders/test_fragment.wgsl"    -> "test_fragment"
      [] path = "shaders/broken.wgsl"           -> "broken"
      [] OTHER                                  -> None

\* ------------------------------------------------------------ WgslShader

WgslShaders ==
    [kind : {"Source"}, arg : Sources] \cup [kind : {"Path"}, arg : Paths]

NoShader == [kind |-> None, arg |-> None]

\* no conversion has run
NoConversion == [ok |-> FALSE, source |-> None, error |-> None]

\* fn create_shader_module_descriptor(source)
create_shader_module_descriptor(source) ==
    IF ParsesAsWgsl(source)
    THEN [ok |-> TRUE, source |-> source, error |-> None]
    ELSE [ok |-> FALSE, source |-> None, error |-> "ParseError"]

\* try_from with the Path arm returning the file's text unparsed
try_from_path_unparsed(shader) ==
    IF shader.kind = "Source"
    THEN create_shader_module_descriptor(shader.arg)
    ELSE IF FileContent(shader.arg) = None
         THEN [ok |-> FALSE, source |-> None, error |-> "IoError"]
         ELSE [ok |-> TRUE, source |-> FileContent(shader.arg), error |-> None]

\* impl TryFrom<WgslShader> for wgpu::ShaderModuleDescriptor
try_from(shader) ==
    IF shader.kind = "Source"
    THEN create_shader_module_descriptor(shader.arg)
    ELSE IF FileContent(shader.arg) = None
         THEN [ok |-> FALSE, source |-> None, error |-> "IoError"]
         ELSE create_shader_module_descriptor(FileContent(shader.arg))

\* ------------------------------------------------------------ GPU resources

\* fn create_texture(device, width, height): the descriptor wgpu accepts
TextureDescriptorValid(width, height) ==
    /\ width >= 1 /\ width <= MaxTextureDimension2D
    /\ height >= 1 /\ height <= MaxTextureDimension2D

create_texture(width, height) == [width |-> width, height |-> height]

\* fn create_buffer(device, width, height): size (bytes_per_row * height),
\* computed in u32 whatever the revision
create_buffer(width, height, fill) ==
    [size   |-> AlignDown(width * 4 + AlignMask) * height,
     mapped |-> FALSE,
     fill   |-> fill,
     layers |-> <<>>]

\* the copies in a buffer were made by earlier frames
Aged(buf) ==
    [buf EXCEPT !.layers =
        [k \in 1 .. Len(buf.layers) |-> [buf.layers[k] EXCEPT !.fresh = FALSE]]]

\* copy_texture_to_buffer: what the encoder is asked to copy
CopyCommand(r, width, height) ==
    [width         |-> width,
     height        |-> height,
     bytes_per_row |-> bytes_per_row(r, width),
     rows_per_image |-> height]

NoCommand == [width |-> 0, height |-> 0, bytes_per_row |-> 0, rows_per_image |-> 0]

\* wgpu's validation of the copy against the texture and the buffer held
CopyValid(c, tex, buf) ==
    /\ c.width <= tex.width
    /\ c.height <= tex.height
    /\ c.bytes_per_row % (AlignMask + 1) = 0
    /\ c.bytes_per_row >= c.width * 4
    /\ c.height >= 1 =>
          c.bytes_per_row * (c.height - 1) + c.width * 4 <= buf.size

\* pixel index i of the buffer lies in a row the copy wrote
Covers(layer, i) ==
    /\ i \div layer.stride < layer.height
    /\ i % layer.stride < layer.width

\* a later copy over the same rows hides an earlier one entirely
Hides(new, old) ==
    /\ new.stride = old.stride
    /\ new.width >= old.width
    /\ new.height >= old.height

\* the render pass (clear, draw 3 vertices) and the copy, done by the queue
Executed(c, buf, fragment) ==
    LET layer == [stride   |-> c.bytes_per_row \div 4,
                  width    |-> c.width,
                  height   |-> c.height,
                  fresh    |-> TRUE,
                  fragment |-> fragment]
    IN  [buf EXCEPT !.layers =
            <<layer>> \o SelectSeq(buf.layers, LAMBDA old : ~Hides(layer, old))]

\* ------------------------------------------------------------ pixels

PadPixel(fill) ==
    [kind |-> "pad", x |-> 0, y |-> 0, fresh |-> FALSE, rgba |-> fill]

\* the texel of cell (x, y) a render pass wrote: the fragment colour blended
\* over the cleared target
Texel(layer, x, y) ==
    [kind  |-> "texel", x |-> x, y |-> y, fresh |-> layer.fresh,
     rgba  |-> Blend(Shade(layer.fragment), ClearColor)]

RECURSIVE LayerLookup(_, _, _)
LayerLookup(layers, fill, i) ==
    IF layers = <<>>
    THEN PadPixel(fill)
    ELSE IF Covers(Head(layers), i)
         THEN Texel(Head(layers), i % Head(layers).stride,
                    i \div Head(layers).stride)
         ELSE LayerLookup(Tail(layers), fill, i)

\* bytemuck::cast_slice(&view): the mapped bytes of the whole buffer
NoPixels == [size |-> 0, fill |-> <<0, 0, 0, 0>>, layers |-> <<>>]

MappedRange(buf) == [size |-> buf.size, fill |-> buf.fill, layers |-> buf.layers]

PaddedLen(padded) == padded.size \div 4

\* padded_buffer[i]
PaddedAt(padded, i) == LayerLookup(padded.layers, padded.fill, i)

\* ------------------------------------------------------------ state

VARIABLES
    rev,            \* the revision of the engine
    build,          \* "debug": overflow panics; "release": overflow wraps
    pc,             \* Start, Idle, Encoding, Submitted, Mapping, Ready, Panicked
    shaderIn,       \* the WgslShader last converted
    conv,           \* the Result of that conversion
    pipeline,       \* fragment stage of the render pipeline
    width,          \* self.width
    height,         \* self.height
    texture,        \* self.texture
    output_buffer,  \* self.output_buffer
    request,        \* (width, height) of the execute call in progress or last made
    previous,       \* how request relates to the call before it
    calls,          \* device and queue calls of the current execute call, in order
    command,        \* the copy the command encoder holds
    mapping,        \* what the map_async callback has sent on the channel
    padded_buffer,  \* the local padded_buffer
    result,         \* what the last execute call returned
    panic,          \* the panic that ended the program
    clock,          \* the monotonic clock Instant::now() reads
    instant,        \* self.instant / self.creation_time
    ctx_buffer,     \* contents of the uniform buffer at binding 0
    user_data,      \* the user data the caller supplied last
    user_data_buffer, \* contents of the uniform buffer at binding 1
    cpu,            \* the CpuBackend: callback and self.user_data
    cpu_ctx,        \* the ShaderContext of the last CpuBackend::execute
    cpu_pixels,     \* the Vec that call returned
    cpu_calls,      \* the (x, y) of the callback's invocations in that call
    canvas,         \* the ShaderCanvas (Shader) being rendered
    area,           \* the Rect it is rendered into
    buf,            \* what the last render wrote into the terminal Buffer
    instant_set,    \* the Instant last given to set_instant
    cloned          \* the instance state.clone() returned, if one was made

vars == <<rev, build, pc, shaderIn, conv, pipeline, width, height, texture,
          output_buffer, request, previous, calls, command, mapping,
          padded_buffer, result, panic, clock, instant, ctx_buffer,
          user_data, user_data_buffer, cpu, cpu_ctx, cpu_pixels, cpu_calls,
          canvas, area, buf, instant_set, cloned>>

\* everything the GPU engine holds
gpuVars == <<shaderIn, conv, pipeline, width, height, texture, output_buffer,
             command, mapping, padded_buffer, result, panic>>

\* the widget and its caller
widgetVars == <<canvas, area, buf, instant_set>>

\* the CPU backend
cpuVars == <<cpu, cpu_ctx, cpu_pixels, cpu_calls>>

\* what only construction and the start of an execute call touch
uniformVars == <<instant, ctx_buffer, user_data, user_data_buffer>>

TakesPath(r) == r \in {"WgpuContext", "WgpuBackend"}

\* self.output_buffer.unmap() is called after the mapped bytes are copied
Unmaps(r) == r \in {"WgpuContext", "WgpuBackend"}

\* execute drops the padding pixels before it returns
Depads(r) == r = "WgpuBackend"

NoPipeline == [source |-> None, entry |-> None, fragment |-> None]

NoRequest == [width |-> 0, height |-> 0]

\* no uniform buffer exists yet
NoContext == [time |-> 0, resolution |-> <<>>]

\* the contents create_buffer_init gives the uniform buffer at binding 0
InitialContext(r) ==
    IF r = "WgpuContext"
    THEN [time |-> 0, resolution |-> <<>>]
    ELSE [time |-> 0, resolution |-> <<DEFAULT_SIZE, DEFAULT_SIZE>>]

\* Instant::elapsed()
Elapsed(now, since) == IF now >= since THEN now - since ELSE 0

\* what queue.write_buffer puts into the uniform buffer at binding 0:
\* WgpuBackend writes self.width and self.height, WgpuContext only the time,
\* ShaderState and ShaderCanvasState the ShaderContext they were called with
ContextWritten(r, w, h, selfWidth, selfHeight, time) ==
    CASE r = "WgpuBackend" ->
           [time |-> time, resolution |-> <<selfWidth, selfHeight>>]
      [] r = "WgpuContext" ->
           [time |-> time, resolution |-> <<>>]
      [] OTHER ->
           [time |-> time, resolution |-> <<w, h>>]

\* one 32-bit word of a #[repr(C)] record: its type, the field it belongs
\* to, and its value as a function (fn) of an integer
Word(type, field, fn, of) == [type |-> type, field |-> field, fn |-> fn, of |-> of]

\* bytemuck::cast_slice(&[ctx]): the words of the record written to the
\* uniform buffer at binding 0, in the order of the struct's fields
ContextWords(r, ctx, ar) ==
    CASE r = "ShaderState" ->
           <<Word("f32", "time", "id", ctx.time),
             Word("f32", "padding", "id", 0),
             Word("u32", "resolution", "id", ctx.resolution[1]),
             Word("u32", "resolution", "id", ctx.resolution[2])>>
      [] r = "WgpuBackend" ->
           <<Word("f32", "time", "id", ctx.time),
             Word("f32", "padding", "id", 0),
             Word("f32", "resolution", "id", ctx.resolution[1]),
             Word("f32", "resolution", "id", ctx.resolution[2])>>
      [] r = "WgpuContext" ->
           <<Word("f32", "time", "id", ctx.time)>>
      [] OTHER ->
           <<Word("f32", "time", "id", ctx.time),
             Word("f32", "time", "times 10", ctx.time),
             Word("f32", "time", "sin", ctx.time),
             Word("f32", "time", "cos", ctx.time),
             Word("u32", "rect", "id", ar.x),
             Word("u32", "rect", "id", ar.y),
             Word("u32", "rect", "id", ctx.resolution[1]),
             Word("u32", "rect", "id", ctx.resolution[2])>>

\* execute takes a user_data argument
TakesUserData(r) == r = "WgpuBackend"

NoResult == [kind |-> "none", depadded |-> FALSE, width |-> 0, height |-> 0,
             padded |-> NoPixels]

\* CharacterRule::default() and StyleRule::default()
DefaultCanvas == [character_rule |-> [kind |-> "Always", arg |-> " "],
                  style_rule |-> "ColorBg"]

NoArea == [x |-> 0, y |-> 0, width |-> 0, height |-> 0]

\* no render has written a cell
NoDrawing == [drawn |-> FALSE, canvas |-> DefaultCanvas, area |-> NoArea,
              samples |-> NoResult]

\* set_instant has not been called
NoInstant == -1

NoCpu == [callback |-> None, user_data |-> NoUserData]

NoCpuContext == [time |-> 0, resolution |-> <<0, 0>>]

\* no clone of the state was made; a clone holds handles of the GPU objects
\* of the state it was cloned from (shares) until one of the two replaces
\* its texture and buffer, and objects of its own after that
NoClone == [live |-> FALSE, shares |-> FALSE, frames |-> 0,
            texture |-> [width |-> 0, height |-> 0],
            output_buffer |-> [size |-> 0, mapped |-> FALSE,
                               fill |-> <<0, 0, 0, 0>>, layers |-> <<>>]]

\* nothing is constructed yet
Fresh ==
    /\ pc = "Start"
    /\ shaderIn = NoShader
    /\ conv = NoConversion
    /\ pipeline = NoPipeline
    /\ width = 0
    /\ height = 0
    /\ texture = create_texture(0, 0)
    /\ output_buffer = create_buffer(0, 0, <<0, 0, 0, 0>>)
    /\ request = NoRequest
    /\ previous = "none"
    /\ calls = <<>>
    /\ command = NoCommand
    /\ mapping = "none"
    /\ padded_buffer = NoPixels
    /\ result = NoResult
    /\ panic = None
    /\ clock = 0
    /\ instant = 0
    /\ ctx_buffer = NoContext
    /\ user_data = NoUserData
    /\ user_data_buffer = NoUserData
    /\ cpu = NoCpu
    /\ cpu_ctx = NoCpuContext
    /\ cpu_pixels = <<>>
    /\ cpu_calls = <<>>
    /\ canvas = DefaultCanvas
    /\ area = NoArea
    /\ buf = NoDrawing
    /\ instant_set = NoInstant
    /\ cloned = NoClone

Init ==
    /\ rev \in Revisions
    /\ build \in (IF UsesU16(rev) THEN Builds ELSE {"release"})
    /\ Fresh

\* ------------------------------------------------------------ construction

\* the fragment function create_render_pipeline binds: the one named, or the
\* only one of the module when no name is given; None when wgpu rejects the
\* module or the entry point
FragmentStage(source, entry) ==
    IF ~ParsesAsWgsl(source)
    THEN None
    ELSE IF entry = None
         THEN IF Cardinality(FragmentEntries(source)) = 1
              THEN CHOOSE f \in FragmentEntries(source) : TRUE
              ELSE None
         ELSE IF entry \in FragmentEntries(source) THEN entry ELSE None

\* new_inner: shader module, DEFAULT_SIZE texture and buffer, pipeline
new_inner(source, entry) ==
    /\ shaderIn' = NoShader
    /\ conv' = NoConversion
    /\ pipeline' = [source |-> source, entry |-> entry,
                    fragment |-> FragmentStage(source, entry)]
    /\ IF FragmentStage(source, entry) = None
       THEN /\ pc' = "Panicked"
            /\ panic' = IF ParsesAsWgsl(source)
                        THEN "create_render_pipeline: validation error"
                        ELSE "create_shader_module: validation error"
            /\ UNCHANGED <<width, height, texture, output_buffer>>
            /\ UNCHANGED uniformVars
       ELSE /\ pc' = "Idle"
            /\ panic' = None
            /\ instant' = clock
            /\ ctx_buffer' = InitialContext(rev)
            /\ user_data' = NoUserData
            /\ user_data_buffer' = NoUserData
            /\ width' = DEFAULT_SIZE
            /\ height' = DEFAULT_SIZE
            /\ texture' = create_texture(DEFAULT_SIZE, DEFAULT_SIZE)
            /\ \E fill \in PadFills :
                 output_buffer' = create_buffer(DEFAULT_SIZE, DEFAULT_SIZE, fill)
    /\ UNCHANGED <<rev, build, request, previous, calls, command, mapping,
                   padded_buffer, result, clock>>
    /\ UNCHANGED cpuVars
    /\ UNCHANGED cloned
    /\ UNCHANGED widgetVars

\* WgslShader -> ShaderModuleDescriptor
Convert(shader) ==
    /\ pc = "Start"
    /\ shaderIn' = shader
    /\ conv' = try_from(shader)
    /\ UNCHANGED <<rev, build, pc, pipeline, width, height, texture,
                   output_buffer, request, previous, calls, command, mapping,
                   padded_buffer, result, panic, clock>>
    /\ UNCHANGED uniformVars
    /\ UNCHANGED cpuVars
    /\ UNCHANGED cloned
    /\ UNCHANGED widgetVars

\* WgpuContext::new / WgpuBackend::new (path_to_fragment_shader, entry_point)
NewFromPath(path, entry) ==
    /\ pc = "Start"
    /\ TakesPath(rev)
    /\ IF FileContent(path) = None
       THEN /\ pc' = "Panicked"
            /\ panic' = "Unable to read fragment shader"
            /\ pipeline' = [source |-> None, entry |-> entry, fragment |-> None]
            /\ shaderIn' = NoShader
            /\ conv' = NoConversion
            /\ UNCHANGED <<rev, build, width, height, texture, output_buffer,
                           request, previous, calls, command, mapping,
                           padded_buffer, result, clock>>
            /\ UNCHANGED uniformVars
            /\ UNCHANGED cpuVars
            /\ UNCHANGED cloned
            /\ UNCHANGED widgetVars
       ELSE new_inner(FileContent(path), entry)

\* ShaderState / ShaderCanvasState ::new (entry = None) and
\* ::new_with_entry_point, given a ShaderModuleDescriptor (include_wgsl!)
NewFromDescriptor(source, entry) ==
    /\ pc = "Start"
    /\ ~TakesPath(rev)
    /\ new_inner(source, entry)

\* the same constructors, given the descriptor a WgslShader converted to
NewFromShader(entry) ==
    /\ pc = "Start"
    /\ ~TakesPath(rev)
    /\ conv.ok
    /\ new_inner(conv.source, entry)

\* ------------------------------------------------------------ execute

\* bytes_per_row(width) != bytes_per_row(self.width) || height != self.height
NeedsNewTarget(r, w, h, selfWidth, selfHeight) ==
    bytes_per_row(r, w) # bytes_per_row(r, selfWidth) \/ h # selfHeight

\* the same calls with a render pipeline built for the frame
EncodeCalls_new_pipeline ==
    <<"create_view", "create_command_encoder", "create_render_pipeline",
      "begin_render_pass", "draw", "copy_texture_to_buffer", "write_buffer">>

\* the same calls with the copy encoded before the render pass
EncodeCalls_copy_first ==
    <<"create_view", "create_command_encoder", "copy_texture_to_buffer",
      "begin_render_pass", "draw", "write_buffer">>

\* the call assigns self.texture and self.output_buffer
ReplacesTarget(r, b, w, h, selfWidth, selfHeight) ==
    /\ ~(b = "debug" /\ bytes_per_row_overflows(r, w))
    /\ NeedsNewTarget(r, w, h, selfWidth, selfHeight)
    /\ TextureDescriptorValid(w, h)

EncodeCalls ==
    <<"create_view", "create_command_encoder", "begin_render_pass", "draw",
      "copy_texture_to_buffer", "write_buffer">>

\* execute_inner up to queue.write_buffer: the texture and the buffer are
\* replaced when NeedsNewTarget, then the render pass and the copy are encoded
BeginExecute(w, h, ud) ==
    /\ pc \in {"Idle", "Rendering"}
    /\ TakesUserData(rev) \/ ud = user_data
    /\ user_data' = ud
    /\ request' = [width |-> w, height |-> h]
    /\ previous' = IF result.kind = "none" THEN "first"
                   ELSE IF request = [width |-> w, height |-> h] THEN "same"
                   ELSE "changed"
    /\ result' = NoResult
    /\ mapping' = "none"
    /\ IF build = "debug" /\ bytes_per_row_overflows(rev, w)
       THEN /\ pc' = "Panicked"
            /\ panic' = IF Overflows(rev, w * 4)
                        THEN "attempt to multiply with overflow"
                        ELSE "attempt to add with overflow"
            /\ calls' = <<>>
            /\ UNCHANGED <<texture, output_buffer, command, ctx_buffer>>
       ELSE IF NeedsNewTarget(rev, w, h, width, height)
                 /\ ~TextureDescriptorValid(w, h)
       THEN /\ pc' = "Panicked"
            /\ panic' = "create_texture: validation error"
            /\ calls' = <<"create_texture">>
            /\ UNCHANGED <<texture, output_buffer, command, ctx_buffer>>
       ELSE /\ pc' = "Encoding"
            /\ panic' = None
            /\ IF NeedsNewTarget(rev, w, h, width, height)
               THEN /\ texture' = create_texture(w, h)
                    /\ \E fill \in PadFills :
                         output_buffer' = create_buffer(w, h, fill)
                    /\ calls' = <<"create_texture", "create_buffer">> \o EncodeCalls
               ELSE /\ texture' = texture
                    /\ output_buffer' = Aged(output_buffer)
                    /\ calls' = EncodeCalls
            /\ command' = CopyCommand(rev, w, h)
            /\ ctx_buffer' = ContextWritten(rev, w, h, width, height,
                                            Elapsed(clock, instant))
    /\ UNCHANGED <<rev, build, shaderIn, conv, pipeline, width, height,
                   padded_buffer, clock, instant, user_data_buffer>>
    /\ cloned' = IF cloned.live /\ cloned.shares /\ ReplacesTarget(rev, build, w, h, width, height)
                 THEN [cloned EXCEPT !.shares = FALSE,
                                     !.texture = texture,
                                     !.output_buffer = output_buffer]
                 ELSE cloned
    /\ UNCHANGED cpuVars
    /\ UNCHANGED widgetVars

\* self.queue.submit(Some(command_encoder.finish()))
Submit ==
    /\ pc = "Encoding"
    /\ calls' = Append(calls, "submit")
    /\ IF ~CopyValid(command, texture, output_buffer)
       THEN /\ pc' = "Panicked"
            /\ panic' = "copy_texture_to_buffer: validation error"
            /\ UNCHANGED output_buffer
       ELSE IF output_buffer.mapped
       THEN /\ pc' = "Panicked"
            /\ panic' = "submit: buffer is still mapped"
            /\ UNCHANGED output_buffer
       ELSE /\ pc' = "Submitted"
            /\ panic' = None
            /\ output_buffer' = Executed(command, output_buffer, pipeline.fragment)
    /\ UNCHANGED <<rev, build, shaderIn, conv, pipeline, width, height, texture,
                   request, previous, command, mapping, padded_buffer, result, clock>>
    /\ UNCHANGED uniformVars
    /\ UNCHANGED cpuVars
    /\ UNCHANGED cloned
    /\ UNCHANGED widgetVars

\* buffer_slice.map_async(MapMode::Read, callback)
MapAsync ==
    /\ pc = "Submitted"
    /\ pc' = "Mapping"
    /\ mapping' = "pending"
    /\ calls' = Append(calls, "map_async")
    /\ UNCHANGED <<rev, build, shaderIn, conv, pipeline, width, height, texture,
                   output_buffer, request, previous, command, padded_buffer,
                   result, panic, clock>>
    /\ UNCHANGED uniformVars
    /\ UNCHANGED cpuVars
    /\ UNCHANGED cloned
    /\ UNCHANGED widgetVars

\* device.poll(Maintain::wait()): the driver resolves the mapping and the
\* callback sends its Result on the channel
Poll(r) ==
    /\ pc = "Mapping"
    /\ mapping = "pending"
    /\ mapping' = r
    /\ output_buffer' = [output_buffer EXCEPT !.mapped = (r = "Ok")]
    /\ calls' = Append(calls, "poll")
    /\ UNCHANGED <<rev, build, pc, shaderIn, conv, pipeline, width, height,
                   texture, request, previous, command, padded_buffer, result,
                   panic, clock>>
    /\ UNCHANGED uniformVars
    /\ UNCHANGED cpuVars
    /\ UNCHANGED cloned
    /\ UNCHANGED widgetVars

\* receiver.recv_async() ... .expect(..); get_mapped_range; to_vec; unmap
ReadMapped ==
    /\ pc = "Mapping"
    /\ mapping # "pending"
    /\ IF mapping = "Err"
       THEN /\ pc' = "Panicked"
            /\ panic' = "on unexpected error occured"
            /\ UNCHANGED <<output_buffer, padded_buffer, calls>>
       ELSE /\ pc' = "Ready"
            /\ panic' = None
            /\ padded_buffer' = MappedRange(output_buffer)
            /\ IF Unmaps(rev)
               THEN /\ output_buffer' = [output_buffer EXCEPT !.mapped = FALSE]
                    /\ calls' = calls \o <<"get_mapped_range", "unmap">>
               ELSE /\ output_buffer' = output_buffer
                    /\ calls' = Append(calls, "get_mapped_range")
    /\ UNCHANGED <<rev, build, shaderIn, conv, pipeline, width, height, texture,
                   request, previous, command, mapping, result, clock>>
    /\ UNCHANGED uniformVars
    /\ UNCHANGED cpuVars
    /\ UNCHANGED cloned
    /\ UNCHANGED widgetVars

\* the de-padding loop panics: an overflow (debug) or padded_buffer[index]
\* out of bounds
DepadPanics(r, b, w, h, padded) ==
    LET stride == Wrap(r, w + row_padding(r, w))
        len    == PaddedLen(padded)
    IN  /\ w >= 1
        /\ h >= 1
        /\ IF DepadIndexOverflows(r, w - 1, h - 1, w)
           THEN \/ b = "debug"
                \/ /\ len < U16  \* a wrapped index is below 2^16
                   /\ \E y \in 0 .. h - 1 : \E x \in 0 .. w - 1 :
                         Wrap(r, Wrap(r, y * stride) + x) >= len
           ELSE \* no wrap: the index grows with y and x
                DepadIndex(r, w - 1, h - 1, w) >= len

\* the Vec execute returns: the de-padding loop's pushes, or padded_buffer
Returned(r, w, h, padded) ==
    [kind |-> "pixels", depadded |-> Depads(r), width |-> w, height |-> h,
     padded |-> padded]

\* for y in 0..height { for x in 0..width { buffer.push(padded_buffer[index]) } }
Return ==
    /\ pc = "Ready"
    /\ padded_buffer' = NoPixels
    /\ IF Depads(rev)
          /\ DepadPanics(rev, build, request.width, request.height, padded_buffer)
       THEN /\ pc' = "Panicked"
            /\ panic' = "de-padding: overflow or index out of bounds"
            /\ UNCHANGED result
       ELSE /\ pc' = IF area = NoArea THEN "Idle" ELSE "Drawing"
            /\ panic' = None
            /\ result' = Returned(rev, request.width, request.height, padded_buffer)
    /\ UNCHANGED <<rev, build, shaderIn, conv, pipeline, width, height, texture,
                   output_buffer, request, previous, calls, command, mapping, clock>>
    /\ UNCHANGED uniformVars
    /\ UNCHANGED cpuVars
    /\ UNCHANGED cloned
    /\ UNCHANGED widgetVars

\* result.len()
ResultLen(res) ==
    IF res.depadded THEN res.width * res.height ELSE PaddedLen(res.padded)

\* result[i]
ResultAt(r, res, i) ==
    IF res.depadded
    THEN PaddedAt(res.padded, DepadIndex(r, i % res.width, i \div res.width, res.width))
    ELSE PaddedAt(res.padded, i)

\* ------------------------------------------------------------ time

\* the clock is read up to this second
MaxClock == 1

Times == 0 .. MaxClock

\* ------------------------------------------------------------ widget

\* the revisions a StatefulWidget renders: Shader over ShaderState (lib.rs)
\* and ShaderCanvas over ShaderCanvasState (canvas.rs)
WidgetRevisions == {"ShaderState", "ShaderCanvasState"}

\* where the areas start: the frame's origin, and inside a bordered block
Offsets == {<<0, 0>>, <<1, 2>>}

Areas == {[x |-> o[1], y |-> o[2], width |-> w, height |-> h] :
             o \in Offsets, w \in {PaddedWidth, DEFAULT_SIZE},
             h \in {DEFAULT_SIZE, TallHeight}}

\* StyleRule::ColorFgAndBg exists in lib.rs only
StyleRules(r) ==
    {"ColorFg", "ColorBg", "Map"}
        \cup (IF r = "ShaderState" THEN {"ColorFgAndBg"} ELSE {})

Canvases(r) ==
    {DefaultCanvas,
     [character_rule |-> [kind |-> "Map", arg |-> "column0"],
      style_rule |-> "ColorFg"],
     [character_rule |-> [kind |-> "Always", arg |-> "#"],
      style_rule |-> "Map"]}
    \cup {[character_rule |-> [kind |-> "Always", arg |-> " "],
           style_rule |-> s] : s \in StyleRules(r) \ {"ColorFg", "ColorBg", "Map"}}

\* u16 arithmetic of the widget's index
Wrap16(n) == n % U16

\* (y * (width + row_padding(width.into()) as u16) + x) as usize
DrawIndex(x, y, w) ==
    Wrap16(Wrap16(y * Wrap16(w + Wrap16(row_padding("ShaderCanvasState", w)))) + x)

DrawIndexOverflows(x, y, w) ==
    LET stride == w + Wrap16(row_padding("ShaderCanvasState", w))
    IN  \/ stride >= U16
        \/ y * Wrap16(stride) >= U16
        \/ Wrap16(y * Wrap16(stride)) + x >= U16

\* Sample::new(value, position, uv); lib.rs: Sample::new(value, position)
Sample(r, samples, x, y, w, h) ==
    [pixel    |-> ResultAt(r, samples, DrawIndex(x, y, w)),
     position |-> <<x, y>>,
     uv       |-> IF r = "ShaderCanvasState"
                  THEN <<[num |-> x, den |-> w], [num |-> y, den |-> h]>>
                  ELSE <<>>]

\* Color::Rgb(value[0], value[1], value[2])
Rgb(pixel) == <<pixel.rgba[1], pixel.rgba[2], pixel.rgba[3]>>

\* a Style field that is None
Unset == <<>>

\* the fn(Sample) -> char of the test: ' ' in column 0, '.' elsewhere
CharacterMap(map, sample) == IF sample.position[1] = 0 THEN " " ELSE "."

\* the fn(Sample) -> Style of the documentation: the sample's colour as
\* background, reversed in the left half (u <= 0.5)
StyleMap(sample) ==
    IF sample.uv # <<>> /\ 2 * sample.uv[1].num > sample.uv[1].den
    THEN [fg |-> Unset, bg |-> Rgb(sample.pixel), reversed |-> FALSE]
    ELSE [fg |-> Unset, bg |-> Rgb(sample.pixel), reversed |-> TRUE]

\* match self.character_rule { Always(c) => c, Map(map) => map(sample) }
Character(rule, sample) ==
    IF rule.kind = "Always" THEN rule.arg ELSE CharacterMap(rule.arg, sample)

\* match self.style_rule { .. }
StyleOf(rule, sample) ==
    CASE rule = "ColorFg" ->
           [fg |-> Rgb(sample.pixel), bg |-> Unset, reversed |-> FALSE]
      [] rule = "ColorBg" ->
           [fg |-> Unset, bg |-> Rgb(sample.pixel), reversed |-> FALSE]
      [] rule = "ColorFgAndBg" ->
           [fg |-> Rgb(sample.pixel), bg |-> Rgb(sample.pixel), reversed |-> FALSE]
      [] OTHER -> StyleMap(sample)

\* a cell the last render did not write
Untouched == [written |-> FALSE, symbol |-> "", style |-> Unset]

\* the cell of the terminal buffer at Position (px, py): the loop writes
\* buf.cell_mut(Position::new(x, y)) for x in 0..width, y in 0..height
CellAt(r, b, px, py) ==
    IF b.drawn /\ px < b.area.width /\ py < b.area.height
    THEN LET sample == Sample(r, b.samples, px, py, b.area.width, b.area.height)
         IN  [written |-> TRUE,
              symbol  |-> Character(b.canvas.character_rule, sample),
              style   |-> StyleOf(b.canvas.style_rule, sample)]
    ELSE Untouched

\* render, up to the call of state.execute(ctx)
Render(cv, ar) ==
    /\ pc = "Idle"
    /\ rev \in WidgetRevisions
    /\ pc' = "Rendering"
    /\ canvas' = cv
    /\ area' = ar
    /\ buf' = NoDrawing
    /\ UNCHANGED <<rev, build, request, previous, calls, clock, instant_set>>
    /\ UNCHANGED gpuVars
    /\ UNCHANGED uniformVars
    /\ UNCHANGED cpuVars
    /\ UNCHANGED cloned

\* let samples = state.execute(ctx), ctx = ShaderContext::new(time, area)
RenderExecute ==
    /\ pc = "Rendering"
    /\ BeginExecute(area.width, area.height, user_data)

\* the loop over the cells panics: an overflow (debug) or samples[index] out
\* of bounds
DrawPanics(r, b, w, h, samples) ==
    /\ w >= 1
    /\ h >= 1
    /\ IF DrawIndexOverflows(w - 1, h - 1, w)
       THEN \/ b = "debug"
            \/ /\ ResultLen(samples) < U16  \* a wrapped index is below 2^16
               /\ \E y \in 0 .. h - 1 : \E x \in 0 .. w - 1 :
                     DrawIndex(x, y, w) >= ResultLen(samples)
       ELSE DrawIndex(w - 1, h - 1, w) >= ResultLen(samples)

\* for y in 0..height { for x in 0..width { .. cell.set_style; cell.set_char } }
Draw ==
    /\ pc = "Drawing"
    /\ IF DrawPanics(rev, build, area.width, area.height, result)
       THEN /\ pc' = "Panicked"
            /\ panic' = "render: overflow or index out of bounds"
            /\ UNCHANGED buf
       ELSE /\ pc' = "Idle"
            /\ panic' = None
            /\ buf' = [drawn |-> TRUE, canvas |-> canvas, area |-> area,
                       samples |-> result]
    /\ UNCHANGED <<rev, build, shaderIn, conv, pipeline, width, height, texture,
                   output_buffer, request, previous, calls, command, mapping,
                   padded_buffer, result, clock, canvas, area, instant_set>>
    /\ UNCHANGED uniformVars
    /\ UNCHANGED cpuVars
    /\ UNCHANGED cloned

\* time passes between frames
Tick ==
    /\ pc \in {"Start", "Idle"}
    /\ clock < MaxClock
    /\ clock' = clock + 1
    /\ UNCHANGED <<rev, build, pc, request, previous, calls>>
    /\ UNCHANGED gpuVars
    /\ UNCHANGED uniformVars
    /\ UNCHANGED cpuVars
    /\ UNCHANGED cloned
    /\ UNCHANGED widgetVars

\* ShaderState::instant(mut self, instant) -> Self: the caller goes on with
\* the state returned
ShaderState_instant(i) ==
    /\ pc = "Idle"
    /\ rev = "ShaderState"
    /\ i <= clock
    /\ instant' = i
    /\ instant_set' = i
    /\ UNCHANGED <<rev, build, pc, request, previous, calls, clock, ctx_buffer,
                   user_data, user_data_buffer, canvas, area, buf>>
    /\ UNCHANGED gpuVars
    /\ UNCHANGED cpuVars
    /\ UNCHANGED cloned

\* ShaderCanvasState::set_instant(mut self, instant): the state is moved
\* into the call and dropped when it returns
set_instant(i) ==
    /\ pc = "Idle"
    /\ rev = "ShaderCanvasState"
    /\ i <= clock
    /\ pc' = "Dropped"
    /\ instant_set' = i
    /\ UNCHANGED <<rev, build, request, previous, calls, clock, canvas, area, buf>>
    /\ UNCHANGED gpuVars
    /\ UNCHANGED uniformVars
    /\ UNCHANGED cpuVars
    /\ UNCHANGED cloned

\* state.clone().set_instant(instant): the clone is dropped, the caller goes
\* on with the state it cloned
set_instant_of_clone(i) ==
    /\ pc = "Idle"
    /\ rev = "ShaderCanvasState"
    /\ i <= clock
    /\ instant_set' = i
    /\ UNCHANGED <<rev, build, pc, request, previous, calls, clock, canvas,
                   area, buf>>
    /\ UNCHANGED gpuVars
    /\ UNCHANGED uniformVars
    /\ UNCHANGED cpuVars
    /\ UNCHANGED cloned

InitFrame ==
    /\ rev \in WidgetRevisions
    /\ build \in Builds
    /\ Fresh

NextFrame ==
    \/ \E source \in Sources : NewFromDescriptor(source, None)
    \/ Tick
    \/ \E i \in Times : ShaderState_instant(i)
    \/ \E i \in Times : set_instant(i)
    \/ \E i \in Times : set_instant_of_clone(i)
    \/ \E cv \in Canvases(rev), ar \in Areas : Render(cv, ar)
    \/ RenderExecute
    \/ Submit
    \/ MapAsync
    \/ \E r \in {"Ok", "Err"} : Poll(r)
    \/ ReadMapped
    \/ Return
    \/ Draw

FrameSpec == InitFrame /\ [][NextFrame]_vars

\* ------------------------------------------------------------ CPU backend

\* widths and heights of the contexts given to the CPU backend
MaxCpuSize == 2

CpuSizes == 0 .. MaxCpuSize

\* closures over (x, y, ctx): Default's constant magenta and one of the cell
CallbacksWithoutUserData == {"magenta", "position"}

\* a closure over (x, y, ctx, &user_data)
CallbacksWithUserData == {"user_data"}

\* self.callback.call(x, y, ctx, &self.user_data)
call(callback, x, y, ctx, data) ==
    CASE callback = "magenta"  -> <<255, 0, 255, 255>>
      [] callback = "position" -> <<x, y, 0, 255>>
      [] OTHER                 -> <<data, ctx.time, x, 255>>

\* the inner loop with the arguments of the callback exchanged
RECURSIVE cpu_row_transposed(_, _, _, _, _, _)
cpu_row_transposed(callback, x, y, w, ctx, data) ==
    IF x >= w
    THEN <<>>
    ELSE <<[x |-> y, y |-> x, user_data |-> data,
            value |-> call(callback, y, x, ctx, data)]>>
         \o cpu_row_transposed(callback, x + 1, y, w, ctx, data)

\* for x in 0..width { pixels.push(self.callback.call(x, y, ctx, &self.user_data)) }
\* each element: what the callback was called with and the value pushed
RECURSIVE cpu_row(_, _, _, _, _, _)
cpu_row(callback, x, y, w, ctx, data) ==
    IF x >= w
    THEN <<>>
    ELSE <<[x |-> x, y |-> y, user_data |-> data,
            value |-> call(callback, x, y, ctx, data)]>>
         \o cpu_row(callback, x + 1, y, w, ctx, data)

\* for y in 0..height { .. }
RECURSIVE cpu_rows(_, _, _, _, _, _)
cpu_rows(callback, y, w, h, ctx, data) ==
    IF y >= h
    THEN <<>>
    ELSE cpu_row(callback, 0, y, w, ctx, data)
         \o cpu_rows(callback, y + 1, w, h, ctx, data)

\* CpuBackend::new(callback): user_data is Default::default()
CpuNew(callback) ==
    /\ pc = "Start"
    /\ rev = "CpuBackend"
    /\ pc' = "Idle"
    /\ cpu' = [callback |-> callback, user_data |-> NoUserData]
    /\ user_data' = NoUserData
    /\ calls' = <<"new">>
    /\ UNCHANGED <<rev, build, request, previous, clock, instant, ctx_buffer,
                   user_data_buffer, cpu_ctx, cpu_pixels, cpu_calls>>
    /\ UNCHANGED gpuVars
    /\ UNCHANGED widgetVars
    /\ UNCHANGED cloned

\* CpuBackend::new_with_user_data(callback, user_data)
CpuNewWithUserData(callback, data) ==
    /\ pc = "Start"
    /\ rev = "CpuBackend"
    /\ pc' = "Idle"
    /\ cpu' = [callback |-> callback, user_data |-> data]
    /\ user_data' = data
    /\ calls' = <<"new_with_user_data">>
    /\ UNCHANGED <<rev, build, request, previous, clock, instant, ctx_buffer,
                   user_data_buffer, cpu_ctx, cpu_pixels, cpu_calls>>
    /\ UNCHANGED gpuVars
    /\ UNCHANGED widgetVars
    /\ UNCHANGED cloned

\* CpuBackend::update_user_data(user_data)
update_user_data(data) ==
    /\ pc = "Idle"
    /\ rev = "CpuBackend"
    /\ cpu' = [cpu EXCEPT !.user_data = data]
    /\ user_data' = data
    /\ calls' = <<"update_user_data">>
    /\ UNCHANGED <<rev, build, pc, request, previous, clock, instant,
                   ctx_buffer, user_data_buffer, cpu_ctx, cpu_pixels, cpu_calls>>
    /\ UNCHANGED gpuVars
    /\ UNCHANGED widgetVars
    /\ UNCHANGED cloned

\* CpuBackend::execute(ctx)
CpuExecute(ctx) ==
    /\ pc = "Idle"
    /\ rev = "CpuBackend"
    /\ cpu_ctx' = ctx
    /\ LET pushed == cpu_rows(cpu.callback, 0, ctx.resolution[1],
                              ctx.resolution[2], ctx, cpu.user_data)
       IN  /\ cpu_pixels' = [i \in 1 .. Len(pushed) |-> pushed[i].value]
           /\ cpu_calls' = [i \in 1 .. Len(pushed) |->
                               [x |-> pushed[i].x, y |-> pushed[i].y,
                                user_data |-> pushed[i].user_data]]
    /\ request' = [width |-> ctx.resolution[1], height |-> ctx.resolution[2]]
    /\ previous' = IF previous = "none" THEN "first"
                   ELSE IF request' = request THEN "same"
                   ELSE "changed"
    /\ calls' = <<"execute">>
    /\ UNCHANGED <<rev, build, pc, clock, instant, ctx_buffer, user_data,
                   user_data_buffer, cpu>>
    /\ UNCHANGED gpuVars
    /\ UNCHANGED widgetVars
    /\ UNCHANGED cloned

InitCpu ==
    /\ rev = "CpuBackend"
    /\ build = "release"
    /\ Fresh

NextCpu ==
    \/ \E callback \in CallbacksWithoutUserData : CpuNew(callback)
    \/ \E callback \in CallbacksWithUserData, data \in UserData :
          CpuNewWithUserData(callback, data)
    \/ \E data \in UserData : update_user_data(data)
    \/ \E w \in CpuSizes, h \in CpuSizes, t \in Times :
          CpuExecute([time |-> t, resolution |-> <<w, h>>])

CpuSpec == InitCpu /\ [][NextCpu]_vars

\* ------------------------------------------------------------ clones

\* the states that derive Clone
CloneRevisions == {"ShaderState", "ShaderCanvasState", "WgpuBackend"}

\* execute calls made on the clone
MaxCloneFrames == 2

CloneWidths == {PaddedWidth, DEFAULT_SIZE}

CloneHeights == {1, DEFAULT_SIZE}

\* let other = state.clone(): every field is cloned, and the clone of a wgpu
\* handle is a handle of the same GPU object
Clone ==
    /\ pc = "Idle"
    /\ rev \in CloneRevisions
    /\ ~cloned.live
    /\ cloned' = [live |-> TRUE, shares |-> TRUE, frames |-> 0,
                  texture |-> texture, output_buffer |-> output_buffer]
    /\ UNCHANGED <<rev, build, pc, request, previous, calls, clock>>
    /\ UNCHANGED gpuVars
    /\ UNCHANGED uniformVars
    /\ UNCHANGED cpuVars
    /\ UNCHANGED widgetVars

\* other.execute(..) on the clone, between two calls on the state it was
\* cloned from: the whole call, the driver resolving the map request with Ok
CloneExecute(w, h) ==
    /\ pc = "Idle"
    /\ cloned.live
    /\ cloned.frames < MaxCloneFrames
    /\ \E fill \in PadFills :
         LET replaces == NeedsNewTarget(rev, w, h, width, height)
             shares   == cloned.shares /\ ~replaces
             held_texture == IF cloned.shares THEN texture ELSE cloned.texture
             held_buffer  == IF cloned.shares THEN output_buffer
                                              ELSE cloned.output_buffer
             tex == IF replaces THEN create_texture(w, h) ELSE held_texture
             target == IF replaces THEN create_buffer(w, h, fill)
                                   ELSE Aged(held_buffer)
             copy == CopyCommand(rev, w, h)
             submitted == CopyValid(copy, tex, target) /\ ~target.mapped
             read == [Executed(copy, target, pipeline.fragment)
                         EXCEPT !.mapped = ~Unmaps(rev)]
         IN  IF submitted
             THEN /\ cloned' = [live |-> TRUE, shares |-> shares,
                                frames |-> cloned.frames + 1,
                                texture |-> IF shares THEN cloned.texture ELSE tex,
                                output_buffer |-> IF shares THEN cloned.output_buffer
                                                            ELSE read]
                  /\ output_buffer' = IF shares THEN read ELSE output_buffer
                  /\ ctx_buffer' = ContextWritten(rev, w, h, width, height,
                                                  Elapsed(clock, instant))
                  /\ UNCHANGED <<pc, panic>>
             ELSE /\ pc' = "Panicked"
                  /\ panic' = IF CopyValid(copy, tex, target)
                              THEN "submit: buffer is still mapped"
                              ELSE "copy_texture_to_buffer: validation error"
                  /\ cloned' = [cloned EXCEPT !.frames = cloned.frames + 1]
                  /\ UNCHANGED <<output_buffer, ctx_buffer>>
    /\ UNCHANGED <<rev, build, shaderIn, conv, pipeline, width, height, texture,
                   request, previous, calls, command, mapping, padded_buffer,
                   result, clock, instant, user_data, user_data_buffer>>
    /\ UNCHANGED cpuVars
    /\ UNCHANGED widgetVars

InitClone ==
    /\ rev \in CloneRevisions
    /\ build \in (IF UsesU16(rev) THEN Builds ELSE {"release"})
    /\ Fresh

NextClone ==
    \/ \E path \in Paths, entry \in EntryPoints : NewFromPath(path, entry)
    \/ \E source \in Sources : NewFromDescriptor(source, None)
    \/ Clone
    \/ \E w \in CloneWidths, h \in CloneHeights : CloneExecute(w, h)
    \/ \E w \in CloneWidths, h \in CloneHeights : BeginExecute(w, h, user_data)
    \/ Submit
    \/ MapAsync
    \/ \E r \in {"Ok", "Err"} : Poll(r)
    \/ ReadMapped
    \/ Return

CloneSpec == InitClone /\ [][NextClone]_vars

\* ------------------------------------------------------------ row sizes

\* the least width whose row size, width * 4, is no u16
WideWidth == U16 \div 4

\* widths with and without padding, and the widest ones a u16 holds a row of
RowWidths == {1, PaddedWidth, DEFAULT_SIZE, DEFAULT_SIZE + 1,
              WideWidth - DEFAULT_SIZE, WideWidth - 1, WideWidth}

RowHeights == {1, DEFAULT_SIZE}

\* execute calls over these widths
NextRow ==
    \/ \E path \in Paths, entry \in EntryPoints : NewFromPath(path, entry)
    \/ \E source \in Sources : NewFromDescriptor(source, None)
    \/ \E w \in RowWidths, h \in RowHeights : BeginExecute(w, h, user_data)
    \/ Submit
    \/ MapAsync
    \/ \E r \in {"Ok", "Err"} : Poll(r)
    \/ ReadMapped
    \/ Return

RowSpec == Init /\ [][NextRow]_vars

\* ------------------------------------------------------------ specification

Next ==
    \/ \E shader \in WgslShaders : Convert(shader)
    \/ \E path \in Paths, entry \in EntryPoints : NewFromPath(path, entry)
    \/ \E source \in Sources, entry \in EntryPoints \cup {None} :
          NewFromDescriptor(source, entry)
    \/ \E entry \in EntryPoints \cup {None} : NewFromShader(entry)
    \/ \E w \in Widths, h \in Heights, ud \in UserData : BeginExecute(w, h, ud)
    \/ Submit
    \/ MapAsync
    \/ \E r \in {"Ok", "Err"} : Poll(r)
    \/ ReadMapped
    \/ Return

Spec == Init /\ [][Next]_vars

\* execute runs on the caller's thread under pollster's block_on: each step
\* of a frame is taken once the step before it is done, and device.poll
\* (Maintain::wait) returns once the driver has resolved the map request
LiveSpec ==
    /\ Spec
    /\ WF_vars(Submit)
    /\ WF_vars(MapAsync)
    /\ WF_vars(\E r \in {"Ok", "Err"} : Poll(r))
    /\ WF_vars(ReadMapped)
    /\ WF_vars(Return)

\* ------------------------------------------------------------ properties

\* an execute call has returned its Vec
ExecuteReturned == pc = "Idle" /\ result.kind = "pixels"

\* an execute call has been made with the viewport in request
ExecuteCalled == previous # "none"

ValidViewport == request.width >= 1 /\ request.height >= 1

\* aligned_row_bytes(width) = ceil_to_multiple(width * 4, 256)
AlignedRowBytes(w) == ((w * 4 + 255) \div 256) * 256

AllReturnedPixels(P(_)) ==
    \A i \in 0 .. ResultLen(result) - 1 : P(ResultAt(rev, result, i))

\* C1: for every viewport with width >= 1 and height >= 1, after any
\* sequence of earlier calls, the pixel array execute returns has exactly
\* width * height entries.
C1_ReturnsWidthTimesHeight ==
    (ExecuteReturned /\ ValidViewport) =>
        ResultLen(result) = request.width * request.height

\* C2: (WgpuBackend) entry y*width + x of the returned array is the texel the
\* copy placed at row y, column x of the staging buffer, padded index
\* y*(aligned_row_bytes(width)/4) + x; no returned entry is a padding pixel.
C2_DepaddedEntryIsTexelOfCell ==
    (rev = "WgpuBackend" /\ ExecuteReturned) =>
        \A y \in 0 .. request.height - 1 : \A x \in 0 .. request.width - 1 :
            LET p == ResultAt(rev, result, y * request.width + x)
            IN  /\ p = PaddedAt(result.padded,
                                y * (AlignedRowBytes(request.width) \div 4) + x)
                /\ p.kind = "texel"
                /\ p.x = x
                /\ p.y = y

\* C3: (ShaderState) when the fragment program outputs one constant opaque
\* colour C for every fragment, every entry of the Vec execute returns equals
\* C, at any viewport size.
C3_ConstantColourEverywhere ==
    (rev = "ShaderState" /\ ExecuteReturned) =>
        AllReturnedPixels(LAMBDA p : p.rgba = Shade(pipeline.fragment))

\* C4: a state built from a source defining "red" and "green" with entry
\* point "green" returns only [0,255,0,255] pixels, and one built with "red"
\* only [255,0,0,255] pixels, on every frame.
C4_EntryPointSelectsFragment ==
    (ExecuteReturned /\ pipeline.source = "test_fragment") =>
        /\ pipeline.entry = "green" =>
              AllReturnedPixels(LAMBDA p : p.rgba = <<0, 255, 0, 255>>)
        /\ pipeline.entry = "red" =>
              AllReturnedPixels(LAMBDA p : p.rgba = <<255, 0, 0, 255>>)

\* C5: a request with width = 0 or height = 0 is rejected with an
\* InvalidViewport error before any GPU call: nothing is created or
\* submitted and the engine stays usable.
C5_ZeroViewportRejected ==
    (ExecuteCalled /\ ~ValidViewport) =>
        /\ calls = <<>>
        /\ pc = "Idle"
        /\ result.kind = "InvalidViewport"

\* C6: the second of two consecutive execute calls with the same
\* (width, height) creates neither a texture nor a staging buffer.
C6_SameSizeDoesNotReallocate ==
    previous = "same" =>
        \A k \in 1 .. Len(calls) :
            calls[k] \notin {"create_texture", "create_buffer"}

\* C7: (WgpuBackend, ShaderCanvasState) after the viewport size changes
\* between two consecutive calls, the second call succeeds and every pixel
\* it returns was rendered by that call's own render pass.
C7_ResizedFrameIsOwnRender ==
    (/\ rev \in {"WgpuBackend", "ShaderCanvasState"}
     /\ previous = "changed"
     /\ ValidViewport
     /\ mapping # "Err"
     /\ pc \in {"Idle", "Panicked"}) =>
        /\ ExecuteReturned
        /\ AllReturnedPixels(LAMBDA p : p.kind = "texel" /\ p.fresh)

\* C8: constructing a state with an entry point that names no fragment
\* function of the source returns an error value; it does not panic.
C8_MissingEntryPointIsError ==
    (/\ pipeline.source # None
     /\ ParsesAsWgsl(pipeline.source)
     /\ pipeline.entry # None
     /\ pipeline.entry \notin FragmentEntries(pipeline.source)) =>
        /\ pc = "Start"
        /\ panic = None

\* C9: converting a WgslShader returns Ok exactly when the file can be read
\* (Path) and the source parses as WGSL, and otherwise Err with the I/O or
\* parse error; an invalid source yields no descriptor, and no pipeline is
\* built from one.
C9_ConversionOkIffReadableAndValid ==
    /\ shaderIn # NoShader =>
          LET readable == shaderIn.kind = "Source" \/ FileContent(shaderIn.arg) # None
              source   == IF shaderIn.kind = "Source" THEN shaderIn.arg
                          ELSE FileContent(shaderIn.arg)
          IN  /\ conv.ok <=> (readable /\ ParsesAsWgsl(source))
              /\ conv.ok => conv.source = source /\ conv.error = None
              /\ ~conv.ok => /\ conv.source = None
                             /\ conv.error = IF readable THEN "ParseError"
                                             ELSE "IoError"
    /\ pipeline.fragment # None => ParsesAsWgsl(pipeline.source)

\* C9 witness: a readable file that is not WGSL has been converted
C9_Witness ==
    /\ shaderIn = [kind |-> "Path", arg |-> "shaders/broken.wgsl"]
    /\ ~conv.ok
    /\ conv.error = "ParseError"

\* C10: when the mapping of the staging buffer fails, execute reports a
\* ReadbackFailed error for that frame instead of aborting, and the engine
\* is back in Idle for the next call.
C10_MapFailureIsReported ==
    (mapping = "Err" /\ pc # "Mapping") =>
        /\ pc = "Idle"
        /\ panic = None
        /\ result.kind = "ReadbackFailed"

\* C11: the user data the fragment program reads at binding 1 in a frame is
\* the value the caller supplied last (here: with the execute call); a call
\* that brings no new user data leaves the stored value as it was.
C11_FragmentSeesSuppliedUserData ==
    (TakesUserData(rev) /\ pc = "Submitted") => user_data_buffer = user_data

\* C12: for a context with resolution (width, height), CpuBackend::execute
\* returns exactly width * height pixels in row-major order: entry
\* y*width + x is callback(x, y, ctx, user_data) for the stored user data,
\* and the callback is invoked exactly once for each cell.
C12_CpuOutputContract ==
    (rev = "CpuBackend" /\ calls = <<"execute">>) =>
        LET w == cpu_ctx.resolution[1]
            h == cpu_ctx.resolution[2]
        IN  /\ Len(cpu_pixels) = w * h
            /\ Len(cpu_calls) = w * h
            /\ \A y \in 0 .. h - 1 : \A x \in 0 .. w - 1 :
                 /\ cpu_pixels[y * w + x + 1] =
                        call(cpu.callback, x, y, cpu_ctx, user_data)
                 /\ Cardinality({k \in 1 .. Len(cpu_calls) :
                                    cpu_calls[k].x = x /\ cpu_calls[k].y = y}) = 1
                 /\ cpu_calls[y * w + x + 1].user_data = user_data

\* C12 witness: a callback of the cell position has filled a 2 x 2 frame, and
\* one of the user data a frame after update_user_data
C12_Witness ==
    /\ rev = "CpuBackend"
    /\ calls = <<"execute">>
    /\ cpu_ctx.resolution = <<2, 2>>
    /\ cpu_pixels # <<>>
    /\ \/ cpu.callback = "position"
       \/ cpu.callback = "user_data" /\ user_data # NoUserData

\* a render has returned and its cells are in the terminal buffer
RenderReturned == pc = "Idle" /\ buf.drawn

\* the pixel the backend produced for cell (x, y) of the frame in result
PixelOfCell(x, y) ==
    IF result.depadded
    THEN ResultAt(rev, result, y * result.width + x)
    ELSE PaddedAt(result.padded, y * (AlignedRowBytes(result.width) \div 4) + x)

\* the sample of cell (x, y) of the area rendered
SampleOfCell(x, y) ==
    [pixel    |-> PixelOfCell(x, y),
     position |-> <<x, y>>,
     uv       |-> IF rev = "ShaderCanvasState"
                  THEN <<[num |-> x, den |-> area.width],
                         [num |-> y, den |-> area.height]>>
                  ELSE <<>>]

\* C13: after a render, every cell (x, y) of the rendered area holds the
\* character of the character rule (c under Always(c), map(sample of that
\* cell) under Map) and the style of the style rule (fg = pixel RGB under
\* ColorFg, bg = pixel RGB under ColorBg, map(sample) under Map).
C13_CellsFollowRules ==
    RenderReturned =>
        \A y \in 0 .. area.height - 1 : \A x \in 0 .. area.width - 1 :
            LET cell == CellAt(rev, buf, area.x + x, area.y + y)
            IN  /\ cell.written
                /\ cell.symbol = Character(canvas.character_rule, SampleOfCell(x, y))
                /\ cell.style = StyleOf(canvas.style_rule, SampleOfCell(x, y))

\* C14: the Sample handed to a Map rule for cell (x, y) of a width x height
\* area carries the pixel the backend produced for that cell, x() = x,
\* y() = y, u() = x/width and v() = y/height, both within [0, 1].
C14_SampleOfItsCell ==
    (/\ RenderReturned
     /\ rev = "ShaderCanvasState"
     /\ canvas.character_rule.kind = "Map" \/ canvas.style_rule = "Map") =>
        \A y \in 0 .. area.height - 1 : \A x \in 0 .. area.width - 1 :
            LET sample == Sample(rev, buf.samples, x, y, area.width, area.height)
            IN  /\ sample.pixel = PixelOfCell(x, y)
                /\ sample.pixel.kind = "texel"
                /\ sample.pixel.x = x /\ sample.pixel.y = y
                /\ sample.position = <<x, y>>
                /\ sample.uv = <<[num |-> x, den |-> area.width],
                                 [num |-> y, den |-> area.height]>>
                /\ x <= area.width /\ y <= area.height

\* C15: after set_instant(i) the state the caller keeps using has Instant i
\* (get_instant() returns i), and the time later renders pass to the shader
\* is measured from i.
C15_SetInstantTakesEffect ==
    instant_set # NoInstant =>
        /\ pc # "Dropped"
        /\ instant = instant_set
        /\ pc = "Submitted" => ctx_buffer.time = Elapsed(clock, instant_set)

\* an execute call has passed its test for a new target without a panic
TargetEnsured == ExecuteCalled /\ pc # "Panicked"

\* C16: after any sequence of execute calls, the dimensions of the texture
\* the state holds equal the (width, height) of the most recent request.
C16_TextureIsLastRequest ==
    TargetEnsured =>
        texture = [width |-> request.width, height |-> request.height]

\* C17: after any sequence of execute calls, the capacity in bytes of the
\* staging buffer the state holds is aligned_row_bytes(width) * height for
\* the most recent request.
C17_BufferCapacityIsLastRequest ==
    TargetEnsured =>
        output_buffer.size = AlignedRowBytes(request.width) * request.height

\* C18: an execute call recreates the texture and the staging buffer, at
\* exactly the requested size, if and only if the request's (aligned row
\* bytes, height) differs from that of the pair held when it is called.
C18_EnsureComparesHeldTarget ==
    [][(pc = "Idle" /\ pc' = "Encoding") =>
          LET differs ==
                \/ AlignedRowBytes(request'.width) # AlignedRowBytes(texture.width)
                \/ request'.height # texture.height
          IN  /\ differs <=> calls'[1] = "create_texture"
              /\ differs =>
                   /\ texture' = [width |-> request'.width,
                                  height |-> request'.height]
                   /\ output_buffer'.size =
                        AlignedRowBytes(request'.width) * request'.height
              /\ ~differs => texture' = texture]_vars

\* C19: every execute call unmaps the staging buffer before it returns, so
\* no call encodes or submits a copy into a buffer still mapped from an
\* earlier frame.
C19_BufferUnmappedBetweenFrames ==
    /\ ExecuteReturned => ~output_buffer.mapped
    /\ pc = "Encoding" => ~output_buffer.mapped

\* C20: the context uniform the render pass of a frame reads holds the
\* width and height requested for that frame and a time sampled for it; it
\* is written in every execute call before the queue submission.
C20_UniformHoldsThisFrame ==
    (rev \in {"WgpuBackend", "ShaderCanvasState"} /\ pc = "Submitted") =>
        /\ ctx_buffer.resolution = <<request.width, request.height>>
        /\ ctx_buffer.time = Elapsed(clock, instant)
        /\ \E i \in 1 .. Len(calls) : \E j \in i + 1 .. Len(calls) :
              calls[i] = "write_buffer" /\ calls[j] = "submit"

\* the calls of one frame after the test for a new target, in the order the
\* claim fixes them
FrameOrder ==
    <<"create_view", "create_command_encoder", "begin_render_pass", "draw",
      "copy_texture_to_buffer", "write_buffer", "submit", "map_async", "poll",
      "get_mapped_range">>

\* the calls of the current execute without the replacement of the target
\* before them and the unmap after them
FrameCalls ==
    LET body == IF Len(calls) >= 2
                   /\ SubSeq(calls, 1, 2) = <<"create_texture", "create_buffer">>
                THEN SubSeq(calls, 3, Len(calls))
                ELSE calls
    IN  IF body # <<>> /\ body[Len(body)] = "unmap"
        THEN SubSeq(body, 1, Len(body) - 1)
        ELSE body

\* C21: every execute call goes ensure target -> render pass -> copy ->
\* submit -> map request -> wait -> read of the mapped range: at each point
\* of a call the calls made so far are exactly the steps up to that point,
\* there is one queue submission, and the mapped range is read only after
\* the map callback reported success.
C21_PerFrameOrder ==
    (ExecuteCalled /\ pc \in {"Encoding", "Submitted", "Mapping", "Ready", "Idle"}) =>
        /\ Len(FrameCalls) <= Len(FrameOrder)
        /\ FrameCalls = SubSeq(FrameOrder, 1, Len(FrameCalls))
        /\ Len(FrameCalls) = CASE pc = "Encoding"  -> 6
                               [] pc = "Submitted" -> 7
                               [] pc = "Mapping"   -> IF mapping = "pending" THEN 8 ELSE 9
                               [] OTHER            -> 10
        /\ Cardinality({i \in 1 .. Len(calls) : calls[i] = "submit"}) =
              IF pc = "Encoding" THEN 0 ELSE 1
        /\ (\E i \in 1 .. Len(calls) : calls[i] = "get_mapped_range") =>
              mapping = "Ok"
        /\ calls[Len(calls)] = "unmap" => Len(FrameCalls) = 10

\* a frame whose target was replaced has read its mapped range
C21_Witness ==
    /\ pc = "Ready"
    /\ previous = "changed"
    /\ calls[1] = "create_texture"
    /\ mapping = "Ok"

\* C22: when the driver signals that the map request completed, every
\* execute call that began to encode its frame terminates with the engine
\* back in Idle, whatever requests came before it.
C22_ExecuteTerminatesInIdle ==
    [](mapping # "Err") => ((pc = "Encoding") ~> (pc = "Idle"))

\* the calls that acquire what the constructor acquires
ConstructorCalls ==
    {"request_adapter", "request_device", "create_shader_module",
     "create_bind_group_layout", "create_pipeline_layout",
     "create_render_pipeline", "create_buffer_init", "create_bind_group"}

\* C23: no step of an execute call replaces or re-acquires what the
\* constructor created: the pipeline stays the constructor's and the only
\* resources a call creates are the texture and the staging buffer.
C23_ConstructedOnce ==
    [][pc # "Start" =>
          /\ pipeline' = pipeline
          /\ \A i \in 1 .. Len(calls') : calls'[i] \notin ConstructorCalls]_vars

\* a call that replaced the target has returned with the pipeline in place
C23_Witness ==
    /\ ExecuteReturned
    /\ previous = "changed"
    /\ calls[1] = "create_texture"
    /\ calls[2] = "create_buffer"
    /\ pipeline.fragment # None

\* C24: an execute call on one instance, a clone included, leaves the
\* texture, the staging buffer with its mapping status, and the held
\* dimensions of the instance it was cloned from unchanged.
C24_InstancesIsolated ==
    [][cloned'.frames # cloned.frames =>
          /\ texture' = texture
          /\ output_buffer' = output_buffer
          /\ width' = width
          /\ height' = height]_vars

\* C25: for every width, bytes_per_row(width) is the least multiple of 256
\* that is >= width * 4, so that the padding of a row is a multiple of 4
\* between 0 and 252 bytes, and a staging buffer an execute call creates
\* has exactly bytes_per_row(width) * height bytes.
C25_RowAlignment ==
    ExecuteCalled =>
        LET row == bytes_per_row(rev, request.width)
            pad == row - request.width * 4
        IN  /\ ~bytes_per_row_overflows(rev, request.width)
            /\ row % 256 = 0
            /\ row >= request.width * 4
            /\ row - 256 < request.width * 4
            /\ pad \in 0 .. 252
            /\ pad % 4 = 0
            /\ (pc = "Encoding" /\ calls[1] = "create_texture") =>
                  output_buffer.size = row * request.height

\* C26: the record an execute call writes to binding 0 is exactly 16 bytes:
\* time (f32), padding (f32), resolution ([u32; 2]) holding the width and
\* then the height.
C26_ContextLayout ==
    pc = "Submitted" =>
        LET words == ContextWords(rev, ctx_buffer, area)
        IN  /\ Len(words) * 4 = 16
            /\ [i \in 1 .. 4 |-> words[i].type] = <<"f32", "f32", "u32", "u32">>
            /\ [i \in 1 .. 4 |-> words[i].field] =
                  <<"time", "padding", "resolution", "resolution">>
            /\ \A i \in 1 .. 4 : words[i].fn = "id"
            /\ words[3].of = ctx_buffer.resolution[1]
            /\ words[4].of = ctx_buffer.resolution[2]

\* C27: for every cell (x, y) of the area, the index the widget computes is
\* within the pixel vector the backend returned and the entry at it is the
\* pixel the backend produced for (x, y), for the vector of a GPU execute
\* and for the vector of a CPU callback backend.
C27_WidgetReadsItsCell ==
    /\ pc = "Drawing" =>
          \A y \in 0 .. area.height - 1 : \A x \in 0 .. area.width - 1 :
              /\ DrawIndex(x, y, area.width) < ResultLen(result)
              /\ ResultAt(rev, result, DrawIndex(x, y, area.width)).kind = "texel"
              /\ ResultAt(rev, result, DrawIndex(x, y, area.width)) = PixelOfCell(x, y)
    /\ (rev = "CpuBackend" /\ calls = <<"execute">>) =>
          \A y \in 0 .. cpu_ctx.resolution[2] - 1 :
          \A x \in 0 .. cpu_ctx.resolution[1] - 1 :
              /\ DrawIndex(x, y, cpu_ctx.resolution[1]) < Len(cpu_pixels)
              /\ cpu_pixels[DrawIndex(x, y, cpu_ctx.resolution[1]) + 1] =
                    call(cpu.callback, x, y, cpu_ctx, user_data)

\* C28: in every execute call the copy from the texture to the buffer stays
\* inside the resources held when it is encoded: its extent is no larger
\* than the texture in either dimension and bytes_per_row(width) * height
\* is no larger than the capacity of the staging buffer.
C28_CopyInsideHeldTarget ==
    pc = "Encoding" =>
        /\ command.width <= texture.width
        /\ command.height <= texture.height
        /\ command.bytes_per_row * command.height <= output_buffer.size

\* C29: the 16-bit arithmetic of the pixel index never overflows: for every
\* cell (x, y) of every area the widget is rendered into, the index it
\* computes in u16 is the mathematical y * (width + row_padding(width)) + x.
C29_IndexArithmeticExact ==
    pc = "Drawing" =>
        \A y \in 0 .. area.height - 1 : \A x \in 0 .. area.width - 1 :
            /\ ~DrawIndexOverflows(x, y, area.width)
            /\ DrawIndex(x, y, area.width) =
                  y * (area.width + (AlignedRowBytes(area.width) - area.width * 4) \div 4) + x

\* C30: a render into an area writes only cells inside the area, columns
\* area.x .. area.x + width - 1 and rows area.y .. area.y + height - 1, also
\* when area.x or area.y is not 0; every other cell is left as it was.
C30_WritesOnlyInsideArea ==
    RenderReturned =>
        \A py \in 0 .. area.y + area.height : \A px \in 0 .. area.x + area.width :
            CellAt(rev, buf, px, py).written =>
                /\ px >= area.x /\ px < area.x + area.width
                /\ py >= area.y /\ py < area.y + area.height

=============================================================================
